---- MODULE Spec2Model ----
(***************************************************************************)
(* Tic-tac-toe: the game loop (Game.playGame), the outcome evaluators      *)
(* (_winner, Game.checkForWin/checkForDraw/checkForEnd), the memoized      *)
(* minimax search (_minimax_cached, best_move_minimax), the evaluation     *)
(* harness (evaluate_agent) and the server launcher (run_app).             *)
(*                                                                         *)
(* A board is a 3x3 tuple of rows; the source indexes rows and columns     *)
(* 0..2, so the cell (i, j) of the source is board[i + 1][j + 1] here.     *)
(* A move is the pair <<i, j>> with the source's 0-based coordinates.      *)
(***************************************************************************)
EXTENDS Integers, Sequences, FiniteSets, TLC

\* Python's None
None == "None"

Marks == {"-", "X", "O"}

Rows == {<<a, b, c>> : a \in Marks, b \in Marks, c \in Marks}

\* every 3x3 board over {'-','X','O'}
AllBoards == {<<r0, r1, r2>> : r0 \in Rows, r1 \in Rows, r2 \in Rows}

EmptyBoard == <<<<"-", "-", "-">>, <<"-", "-", "-">>, <<"-", "-", "-">>>>

\* board[i][j]
Cell(b, i, j) == b[i + 1][j + 1]

\* board[i][j] = mark
SetCell(b, i, j, mark) == [b EXCEPT ![i + 1][j + 1] = mark]

\* the turn never handed over
Other_Same(key) == key

\* the other mark
Other(key) == IF key = "X" THEN "O" ELSE "X"

\* ''.join(board[i][j] for i in range(3) for j in range(3))
_flatten(b) == b[1] \o b[2] \o b[3]

\* key = ''; for row in board: for elt in row: key += elt
getStateKey(b) == b[1] \o b[2] \o b[3]

\* [[flat_board[r * 3 + c] for c in range(3)] for r in range(3)]
Unflatten(flat_board) ==
    << <<flat_board[1], flat_board[2], flat_board[3]>>,
       <<flat_board[4], flat_board[5], flat_board[6]>>,
       <<flat_board[7], flat_board[8], flat_board[9]>> >>

\* range(3) x range(3) in row-major order
RowMajor == << <<0, 0>>, <<0, 1>>, <<0, 2>>,
               <<1, 0>>, <<1, 1>>, <<1, 2>>,
               <<2, 0>>, <<2, 1>>, <<2, 2>> >>

\* the empty cells of board, in row-major order
_legal_moves(b) ==
    SelectSeq(RowMajor, LAMBDA m : Cell(b, m[1], m[2]) = "-")

\* the 8 lines in the order _winner scans them: rows, columns, diagonals
Lines == << << <<0, 0>>, <<0, 1>>, <<0, 2>> >>,
            << <<1, 0>>, <<1, 1>>, <<1, 2>> >>,
            << <<2, 0>>, <<2, 1>>, <<2, 2>> >>,
            << <<0, 0>>, <<1, 0>>, <<2, 0>> >>,
            << <<0, 1>>, <<1, 1>>, <<2, 1>> >>,
            << <<0, 2>>, <<1, 2>>, <<2, 2>> >>,
            << <<0, 0>>, <<1, 1>>, <<2, 2>> >>,
            << <<0, 2>>, <<1, 1>>, <<2, 0>> >> >>

\* v1 != '-' and v1 == v2 == v3 on line number n
LineComplete(b, n) ==
    LET v1 == Cell(b, Lines[n][1][1], Lines[n][1][2])
        v2 == Cell(b, Lines[n][2][1], Lines[n][2][2])
        v3 == Cell(b, Lines[n][3][1], Lines[n][3][2])
    IN  v1 # "-" /\ v1 = v2 /\ v2 = v3

\* any(board[i][j] == '-' ...)
AnyEmpty(b) == \E i \in 0..2 : \E j \in 0..2 : Cell(b, i, j) = "-"

\* the full-board test made before the line scan
_winner_DrawFirst(b) ==
    IF ~AnyEmpty(b) THEN "D"
    ELSE IF \E n \in 1..8 : LineComplete(b, n)
    THEN LET first == CHOOSE n \in 1..8 :
                        /\ LineComplete(b, n)
                        /\ \A k \in 1..(n - 1) : ~LineComplete(b, k)
         IN  Cell(b, Lines[first][1][1], Lines[first][1][2])
    ELSE None

\* _winner: the mark on the first complete line in scan order, else
\* None while a cell is empty, else 'D'
_winner(b) ==
    IF \E n \in 1..8 : LineComplete(b, n)
    THEN LET first == CHOOSE n \in 1..8 :
                        /\ LineComplete(b, n)
                        /\ \A k \in 1..(n - 1) : ~LineComplete(b, k)
         IN  Cell(b, Lines[first][1][1], Lines[first][1][2])
    ELSE IF AnyEmpty(b) THEN None ELSE "D"

\* evaluate.py's own _winner, the same scan
evaluate_winner(b) ==
    IF \E n \in 1..8 : LineComplete(b, n)
    THEN LET first == CHOOSE n \in 1..8 :
                        /\ LineComplete(b, n)
                        /\ \A k \in 1..(n - 1) : ~LineComplete(b, k)
         IN  Cell(b, Lines[first][1][1], Lines[first][1][2])
    ELSE IF AnyEmpty(b) THEN None ELSE "D"

\* number of empty cells of a flattened board
NumEmpty(flat_board) == Cardinality({k \in 1..9 : flat_board[k] = "-"})

\* the cache is kept as a tuple of tables, the n-th holding the keys whose
\* board has n - 1 empty cells; Lookup is a cache hit
Lookup(memo, flat_board, player) ==
    memo[NumEmpty(flat_board) + 1][<<flat_board, player>>]

\* the O branch's comparison pasted into the X branch
XImproves_Less(sc, best_score) == sc < best_score

\* a later move of equal score kept
XImproves_OrEqual(sc, best_score) == sc >= best_score

\* if sc > best_score (X branch)
XImproves(sc, best_score) == sc > best_score

\* leaving the X loop as soon as a draw is in hand
XBreak_AtDraw(best_score) == best_score >= 0

\* if best_score == 1: break (X branch)
XBreak(best_score) == best_score = 1

\* the X branch's comparison pasted into the O branch
OImproves_Greater(sc, best_score) == sc > best_score

\* only the first move examined is ever kept
OImproves_FirstOnly(sc, best_score) == best_score = 2

\* if sc < best_score (O branch)
OImproves(sc, best_score) == sc < best_score

\* leaving the O loop after the first move
OBreak_Always(best_score) == TRUE

\* if best_score == -1: break (O branch)
OBreak(best_score) == best_score = -1

\* the for loop of the X branch from the k-th move on; memo holds the
\* results of the recursive calls
RECURSIVE XLoop(_, _, _, _, _, _)
XLoop(memo, b, moves, k, best_score, best_mv) ==
    IF k > Len(moves) THEN <<best_score, best_mv>>
    ELSE LET sc == Lookup(memo, _flatten(SetCell(b, moves[k][1], moves[k][2], "X")), "O")[1]
         IN  IF XImproves(sc, best_score)
             THEN IF XBreak(sc) THEN <<sc, moves[k]>>
                  ELSE XLoop(memo, b, moves, k + 1, sc, moves[k])
             ELSE XLoop(memo, b, moves, k + 1, best_score, best_mv)

\* the for loop of the O branch from the k-th move on
RECURSIVE OLoop(_, _, _, _, _, _)
OLoop(memo, b, moves, k, best_score, best_mv) ==
    IF k > Len(moves) THEN <<best_score, best_mv>>
    ELSE LET sc == Lookup(memo, _flatten(SetCell(b, moves[k][1], moves[k][2], "O")), "X")[1]
         IN  IF OImproves(sc, best_score)
             THEN IF OBreak(sc) THEN <<sc, moves[k]>>
                  ELSE OLoop(memo, b, moves, k + 1, sc, moves[k])
             ELSE OLoop(memo, b, moves, k + 1, best_score, best_mv)

\* the body of _minimax_cached for one (flat_board, player); the recursive
\* calls, all on boards with one empty cell fewer, are looked up in memo
MinimaxBody(memo, flat_board, player) ==
    LET b == Unflatten(flat_board)
        term  == _winner(b)
    IN  IF term = "X" THEN <<1, None>>
        ELSE IF term = "O" THEN <<-1, None>>
        ELSE IF term = "D" THEN <<0, None>>
        ELSE IF player = "X"
             THEN XLoop(memo, b, _legal_moves(b), 1, -2, None)
             ELSE OLoop(memo, b, _legal_moves(b), 1, 2, None)

\* the keys (flat_board, player) with exactly n empty cells
CacheKeys(n) ==
    {<<_flatten(b), p>> : b \in {c \in AllBoards : NumEmpty(_flatten(c)) = n},
                          p \in {"X", "O"}}

\* the lru_cache after every key with at most n empty cells was searched
RECURSIVE CacheUpTo(_)
CacheExtend(memo, n) ==
    Append(memo, [key \in CacheKeys(n) |-> MinimaxBody(memo, key[1], key[2])])

CacheUpTo(n) ==
    IF n = 0 THEN CacheExtend(<<>>, 0) ELSE CacheExtend(CacheUpTo(n - 1), n)

\* what @lru_cache(maxsize=None) holds once every key was searched
MinimaxCache == CacheUpTo(9)

\* _minimax_cached(flat_board, player): (score, best_move)
_minimax_cached(flat_board, player) == Lookup(MinimaxCache, flat_board, player)

\* the fallback returning the top-left cell whatever the board
best_move_minimax_TopLeft(b, key) ==
    LET mv == _minimax_cached(_flatten(b), key)[2]
    IN  IF mv # None THEN mv
        ELSE IF Len(_legal_moves(b)) > 0 THEN <<0, 0>>
        ELSE "IndexError"

\* best_move_minimax(board, key); _legal_moves(board)[0] raises IndexError
\* on a full board
best_move_minimax(b, key) ==
    LET mv == _minimax_cached(_flatten(b), key)[2]
    IN  IF mv # None THEN mv
        ELSE IF Len(_legal_moves(b)) > 0 THEN _legal_moves(b)[1]
        ELSE "IndexError"

\* an lru_cache of size one: only the latest entry is kept
lru_store_Single(memo, key, value) == [k \in {key} |-> value]

\* @lru_cache(maxsize=None) storing the result of a call that missed
lru_store(memo, key, value) ==
    [k \in DOMAIN memo \cup {key} |-> IF k = key THEN value ELSE memo[k]]

\* _minimax_cached(flat_board, player) called with the lru_cache holding
\* memo: a hit returns the stored entry; a miss runs the body, whose
\* recursive calls go through the cache in turn, and stores the result.
\* The value is the pair of the cache after the call and the result.
RECURSIVE cached_call(_, _, _)
RECURSIVE cached_body(_, _, _)
RECURSIVE cached_XLoop(_, _, _, _, _, _)
RECURSIVE cached_OLoop(_, _, _, _, _, _)
cached_call(memo, flat_board, player) ==
    IF <<flat_board, player>> \in DOMAIN memo
    THEN [memo |-> memo, res |-> memo[<<flat_board, player>>]]
    ELSE LET out == cached_body(memo, flat_board, player)
         IN  [memo |-> lru_store(out.memo, <<flat_board, player>>, out.res),
              res |-> out.res]

cached_body(memo, flat_board, player) ==
    LET b == Unflatten(flat_board)
        term == _winner(b)
    IN  IF term = "X" THEN [memo |-> memo, res |-> <<1, None>>]
        ELSE IF term = "O" THEN [memo |-> memo, res |-> <<-1, None>>]
        ELSE IF term = "D" THEN [memo |-> memo, res |-> <<0, None>>]
        ELSE IF player = "X"
             THEN cached_XLoop(memo, b, _legal_moves(b), 1, -2, None)
             ELSE cached_OLoop(memo, b, _legal_moves(b), 1, 2, None)

cached_XLoop(memo, b, moves, k, best_score, best_mv) ==
    IF k > Len(moves) THEN [memo |-> memo, res |-> <<best_score, best_mv>>]
    ELSE LET out == cached_call(memo, _flatten(SetCell(b, moves[k][1], moves[k][2], "X")), "O")
             sc == out.res[1]
         IN  IF XImproves(sc, best_score)
             THEN IF XBreak(sc) THEN [memo |-> out.memo, res |-> <<sc, moves[k]>>]
                  ELSE cached_XLoop(out.memo, b, moves, k + 1, sc, moves[k])
             ELSE cached_XLoop(out.memo, b, moves, k + 1, best_score, best_mv)

cached_OLoop(memo, b, moves, k, best_score, best_mv) ==
    IF k > Len(moves) THEN [memo |-> memo, res |-> <<best_score, best_mv>>]
    ELSE LET out == cached_call(memo, _flatten(SetCell(b, moves[k][1], moves[k][2], "O")), "X")
             sc == out.res[1]
         IN  IF OImproves(sc, best_score)
             THEN IF OBreak(sc) THEN [memo |-> out.memo, res |-> <<sc, moves[k]>>]
                  ELSE cached_OLoop(out.memo, b, moves, k + 1, sc, moves[k])
             ELSE cached_OLoop(out.memo, b, moves, k + 1, best_score, best_mv)

\* most empty cells of a board the search is called on
MaxSearchEmpty == 2

\* the second diagonal counted for 'X' whatever the key
checkForWin_XDiagonal(b, key) ==
    LET count3(x, y, z, k) == Cardinality({n \in 1..3 : <<x, y, z>>[n] = k}) = 3
    IN  \/ count3(Cell(b, 0, 0), Cell(b, 1, 1), Cell(b, 2, 2), key)
        \/ count3(Cell(b, 0, 2), Cell(b, 1, 1), Cell(b, 2, 0), "X")
        \/ \E i \in 0..2 :
             \/ count3(Cell(b, 0, i), Cell(b, 1, i), Cell(b, 2, i), key)
             \/ count3(Cell(b, i, 0), Cell(b, i, 1), Cell(b, i, 2), key)

\* Game.checkForWin(key) on board b: both diagonals, then each column and row
checkForWin(b, key) ==
    LET count3(x, y, z) == Cardinality({n \in 1..3 : <<x, y, z>>[n] = key}) = 3
    IN  \/ count3(Cell(b, 0, 0), Cell(b, 1, 1), Cell(b, 2, 2))
        \/ count3(Cell(b, 0, 2), Cell(b, 1, 1), Cell(b, 2, 0))
        \/ \E i \in 0..2 :
             \/ count3(Cell(b, 0, i), Cell(b, 1, i), Cell(b, 2, i))
             \/ count3(Cell(b, i, 0), Cell(b, i, 1), Cell(b, i, 2))

\* Game.checkForDraw() on board b: no cell is '-'
checkForDraw(b) == \A r \in 1..3 : \A c \in 1..3 : b[r][c] # "-"

\* a draw reported after every ply
checkForEnd_AlwaysDraw(b, key) == 0

\* the line looked for is X's whatever the key
checkForEnd_XOnly(b, key) ==
    IF checkForWin(b, "X") THEN 1
    ELSE IF checkForDraw(b) THEN 0
    ELSE -1

\* Game.checkForEnd(key) on board b: 1 win of key, 0 draw, -1 still going
checkForEnd(b, key) ==
    IF checkForWin(b, key) THEN 1
    ELSE IF checkForDraw(b) THEN 0
    ELSE -1

\* the set of cells a sequence of moves holds
MoveSet(moves) == {moves[k] : k \in 1..Len(moves)}

\* agent.get_action(state): a move of the learner (epsilon-greedy over the
\* legal moves of the board)
get_action(b) == MoveSet(_legal_moves(b))

\* teacher.makeMove(board): optimal or uniformly random among the legal moves
makeMove(b) == MoveSet(_legal_moves(b))

\* longest input line read from the player
MaxLen == 3

\* most rejected lines in one playerMove call
MaxAttempts == 2

\* characters of an input line: two digits in range, a digit out of range
\* and the separator (a character int() rejects)
Chars == {"0", "1", "7", ","}

\* the input lines
RECURSIVE LinesUpTo(_)
LinesUpTo(n) ==
    IF n = 0 THEN {<<>>}
    ELSE LinesUpTo(n - 1) \cup
         {Append(l, c) : l \in {x \in LinesUpTo(n - 1) : Len(x) = n - 1}, c \in Chars}

Inputs == LinesUpTo(MaxLen)

\* the one-character strings int() accepts, with their values
DigitValue == [ch \in {"0", "1", "2", "3", "4", "5", "6", "7", "8", "9"} |->
                 CASE ch = "0" -> 0 [] ch = "1" -> 1 [] ch = "2" -> 2
                   [] ch = "3" -> 3 [] ch = "4" -> 4 [] ch = "5" -> 5
                   [] ch = "6" -> 6 [] ch = "7" -> 7 [] ch = "8" -> 8
                   [] ch = "9" -> 9]

\* int(ch) raises ValueError
IntFails(ch) == ch \notin DOMAIN DigitValue

\* the try block of playerMove: row, col = int(move[0]), int(move[2]);
\* exc is the exception raised, if any
ParseMove(move) ==
    IF Len(move) < 1 THEN [exc |-> "IndexError", row |-> 0, col |-> 0]
    ELSE IF IntFails(move[1]) THEN [exc |-> "ValueError", row |-> 0, col |-> 0]
    ELSE IF Len(move) < 3 THEN [exc |-> "IndexError", row |-> 0, col |-> 0]
    ELSE IF IntFails(move[3]) THEN [exc |-> "ValueError", row |-> 0, col |-> 0]
    ELSE [exc |-> None, row |-> DigitValue[move[1]], col |-> DigitValue[move[3]]]

\* row not in range(3) or col not in range(3) or not board[row][col] == '-'
InvalidMove(b, row, col) ==
    row \notin 0..2 \/ col \notin 0..2 \/ Cell(b, row, col) # "-"

\* most games evaluate_agent is asked to play
MaxGames == 2

VARIABLES
    board,          \* Game.board, or the board of the running evaluation game
    pc,             \* where the program is
    turn,           \* evaluate_agent's turn; the mover or key of a search call
    teacher,        \* Game.teacher (None: a human plays X)
    prev_state,     \* playGame's prev_state
    prev_action,    \* playGame's prev_action
    update,         \* arguments of the latest agent.update call
    updates,        \* number of agent.update calls so far
    terminal_updates, \* number of those with nextState = None
    attempts,       \* lines rejected so far by the running playerMove
    opponent,       \* evaluate_agent's opponent policy (plays X)
    agent,          \* the policy that plays O
    agent_found,    \* os.path.isfile(agent_path)
    games,          \* evaluate_agent's games
    g,              \* games finished so far
    wins,           \* evaluate_agent's wins
    draws,          \* evaluate_agent's draws
    losses,         \* evaluate_agent's losses
    serving,        \* app.run was called
    cache,          \* the entries of _minimax_cached's lru_cache, followed
                    \* call by call in the specification of the cache only
    result          \* value returned by the function just called

loopVars == <<prev_state, prev_action, update, updates, terminal_updates>>

gameVars == <<teacher, prev_state, prev_action, update, updates,
              terminal_updates, attempts>>

evalVars == <<opponent, agent, agent_found, games, g, wins, draws, losses,
              serving, cache>>

vars == <<board, pc, turn, gameVars, evalVars, result>>

\* agent.update(prevState, nextState, prevAction, nextAction, reward)
UpdateCall(ps, ns, pa, na, r) ==
    [prevState |-> ps, nextState |-> ns, prevAction |-> pa, nextAction |-> na,
     reward |-> r]

\* Game(agent, teacher): a fresh board; the episode has not begun and
\* playGame's prev_state and prev_action are not assigned yet (the empty
\* key and the empty pair stand for that)
InitGame ==
    /\ board = EmptyBoard
    /\ pc = "start"
    /\ turn = None
    /\ teacher \in {None, "Teacher"}
    /\ prev_state = <<>>
    /\ prev_action = <<>>
    /\ update = None
    /\ updates = 0
    /\ terminal_updates = 0
    /\ attempts = 0
    /\ opponent = None
    /\ agent = "learner"
    /\ agent_found = TRUE
    /\ games = 0
    /\ g = 0
    /\ wins = 0
    /\ draws = 0
    /\ losses = 0
    /\ serving = FALSE
    /\ cache = <<>>
    /\ result = None

\* playGame(player_first) up to the first move: either the player moves
\* first, or the agent's first action is chosen on the empty board
StartGame ==
    /\ pc = "start"
    /\ \E player_first \in BOOLEAN :
         IF player_first
         THEN /\ pc' = "playerFirst"
              /\ UNCHANGED <<prev_state, prev_action>>
         ELSE /\ prev_state' = getStateKey(board)
              /\ \E a \in get_action(board) : prev_action' = a
              /\ pc' = "agentMove"
    /\ UNCHANGED <<board, turn, teacher, update, updates, terminal_updates, attempts,
                   evalVars, result>>

\* playGame returning without the final update
FinalUpdate_Skipped(reward) ==
    /\ pc' = "done"
    /\ UNCHANGED <<prev_state, prev_action, update, updates, terminal_updates>>

\* the final update after the loop: update(prev_state, None, prev_action, None, reward)
FinalUpdate(reward) ==
    /\ update' = UpdateCall(prev_state, None, prev_action, None, reward)
    /\ updates' = updates + 1
    /\ terminal_updates' = terminal_updates + 1
    /\ pc' = "done"
    /\ UNCHANGED <<prev_state, prev_action>>

\* Game.agentMove(action): self.board[action[0]][action[1]] = 'O'
agentMove(b, action) == SetCell(b, action[1], action[2], "O")

\* self.agentMove(prev_action); check = self.checkForEnd('O')
AgentMove ==
    /\ pc = "agentMove"
    /\ board' = agentMove(board, prev_action)
    /\ LET check == checkForEnd(board', "O")
       IN  IF check # -1
           THEN FinalUpdate(check)
           ELSE /\ pc' = "playerMove"
                /\ UNCHANGED <<prev_state, prev_action, update, updates, terminal_updates>>
    /\ UNCHANGED <<turn, teacher, attempts, evalVars, result>>

\* the sign of the player's win forgotten
PlayerReward_NoNegation(check) == check

\* reward = -1*check
PlayerReward(check) == -1 * check

\* what playGame does once playerMove has put an X on the board (now b):
\* before the loop the agent's first action is chosen; inside the loop the
\* end check for 'X', then either the final update or the next action and
\* the update of the previous one
PlayerMoved(b) ==
    /\ board' = b
    /\ attempts' = 0
    /\ IF pc = "playerFirst"
       THEN /\ prev_state' = getStateKey(b)
            /\ \E a \in get_action(b) : prev_action' = a
            /\ pc' = "agentMove"
            /\ UNCHANGED <<update, updates, terminal_updates>>
       ELSE LET check == checkForEnd(b, "X")
            IN  IF check # -1
                THEN FinalUpdate(PlayerReward(check))
                ELSE /\ \E new_action \in get_action(b) :
                          /\ update' = UpdateCall(prev_state, getStateKey(b),
                                                  prev_action, new_action, 0)
                          /\ prev_action' = new_action
                     /\ prev_state' = getStateKey(b)
                     /\ updates' = updates + 1
                     /\ pc' = "agentMove"
                     /\ UNCHANGED terminal_updates
    /\ UNCHANGED <<turn, teacher, evalVars, result>>

\* playerMove with a teacher: action = teacher.makeMove(board); board[..] = 'X'
TeacherMove ==
    /\ pc \in {"playerFirst", "playerMove"}
    /\ teacher # None
    /\ \E action \in makeMove(board) :
         PlayerMoved(SetCell(board, action[1], action[2], "X"))

\* playerMove without a teacher, one pass of the while loop on the line move
HumanInput(move) ==
    /\ pc \in {"playerFirst", "playerMove"}
    /\ teacher = None
    /\ LET rc == ParseMove(move)
       IN  IF rc.exc = "IndexError"
           THEN /\ pc' = "IndexError"
                /\ UNCHANGED <<board, turn, gameVars, evalVars, result>>
           ELSE IF rc.exc = "ValueError" \/ InvalidMove(board, rc.row, rc.col)
           THEN /\ attempts < MaxAttempts
                /\ attempts' = attempts + 1
                /\ UNCHANGED <<board, pc, turn, teacher, loopVars, evalVars, result>>
           ELSE PlayerMoved(SetCell(board, rc.row, rc.col, "X"))

HumanMove == \E move \in Inputs : HumanInput(move)

NextGame == StartGame \/ AgentMove \/ TeacherMove \/ HumanMove

SpecGame == InitGame /\ [][NextGame]_vars

\* playGame runs on by itself: the statements of the loop, the agent and
\* the teacher return; a human may never type an accepted line
LiveGame ==
    SpecGame /\ WF_vars(StartGame) /\ WF_vars(AgentMove) /\ WF_vars(TeacherMove)

\* ---------------------------------------------------------------------
\* evaluate_agent and run_app

\* opp_move(board) for the opponent policies 'minimax' and 'random'
opp_move(b) ==
    IF opponent = "minimax" THEN {best_move_minimax(b, "X")}
    ELSE MoveSet(_legal_moves(b))

\* _agent_greedy_move(agent, board): a legal move of maximal Q-value, ties
\* broken at random; the Q-table is the loaded agent's, so any legal move
_agent_greedy_move(b) == MoveSet(_legal_moves(b))

\* the program is launched: evaluate.py or run_app.py, with or without a
\* pickled agent on disk; no board exists yet
InitEval ==
    /\ board = None
    /\ pc \in {"evaluate_agent", "run_app"}
    /\ turn = None
    /\ teacher = None
    /\ prev_state = None
    /\ prev_action = None
    /\ update = None
    /\ updates = 0
    /\ terminal_updates = 0
    /\ attempts = 0
    /\ opponent \in {"minimax", "random"}
    /\ agent = "greedy"
    /\ agent_found \in BOOLEAN
    /\ games \in 0..MaxGames
    /\ g = 0
    /\ wins = 0
    /\ draws = 0
    /\ losses = 0
    /\ serving = FALSE
    /\ cache = <<>>
    /\ result = None

\* the isfile test left out
EvalLoad_NoCheck ==
    /\ pc = "evaluate_agent"
    /\ pc' = "for"
    /\ UNCHANGED <<board, turn, gameVars, evalVars, result>>

\* evaluate_agent: if not os.path.isfile(agent_path): raise FileNotFoundError
EvalLoad ==
    /\ pc = "evaluate_agent"
    /\ pc' = IF agent_found THEN "for" ELSE "FileNotFoundError"
    /\ UNCHANGED <<board, turn, gameVars, evalVars, result>>

\* the agent given the first move of each game
EvalNewGame_AgentFirst ==
    /\ pc = "for"
    /\ g < games
    /\ board' = EmptyBoard
    /\ turn' = "O"
    /\ pc' = "while"
    /\ UNCHANGED <<gameVars, evalVars, result>>

\* for g in range(games): a new board, turn = 'X'
EvalNewGame ==
    /\ pc = "for"
    /\ g < games
    /\ board' = EmptyBoard
    /\ turn' = "X"
    /\ pc' = "while"
    /\ UNCHANGED <<gameVars, evalVars, result>>

\* return wins, draws, losses
EvalReturn ==
    /\ pc = "for"
    /\ g = games
    /\ pc' = "returned"
    /\ result' = <<wins, draws, losses>>
    /\ UNCHANGED <<board, turn, gameVars, evalVars>>

\* the mark key was put on the board, now b: term = _winner(board); count
\* and break, or hand the turn over
EvalAfterMove(b, key) ==
    /\ board' = b
    /\ LET term == evaluate_winner(b)
       IN  IF term # None
           THEN /\ losses' = IF term = "X" THEN losses + 1 ELSE losses
                /\ wins' = IF term # "X" /\ term = "O" THEN wins + 1 ELSE wins
                /\ draws' = IF term # "X" /\ term # "O" THEN draws + 1 ELSE draws
                /\ g' = g + 1
                /\ pc' = "for"
                /\ UNCHANGED turn
           ELSE /\ turn' = Other(key)
                /\ UNCHANGED <<pc, g, wins, draws, losses>>
    /\ UNCHANGED <<gameVars, opponent, agent, agent_found, games, serving, cache,
                   result>>

\* if turn == 'X': i, j = opp_move(board); board[i][j] = 'X'
EvalOpponentMove ==
    /\ pc = "while"
    /\ turn = "X"
    /\ \E mv \in opp_move(board) :
         EvalAfterMove(SetCell(board, mv[1], mv[2], "X"), "X")

\* else: i, j = _agent_greedy_move(agent, board); board[i][j] = 'O'
EvalAgentMove ==
    /\ pc = "while"
    /\ turn = "O"
    /\ \E mv \in _agent_greedy_move(board) :
         EvalAfterMove(SetCell(board, mv[1], mv[2], "O"), "O")

\* run_app.py: warn when q_agent.pkl is missing, then app.run(...) either way
RunApp ==
    /\ pc = "run_app"
    /\ serving' = TRUE
    /\ pc' = "serving"
    /\ UNCHANGED <<board, turn, gameVars, opponent, agent, agent_found, games,
                   g, wins, draws, losses, cache, result>>

NextEval ==
    \/ EvalLoad
    \/ EvalNewGame
    \/ EvalReturn
    \/ EvalOpponentMove
    \/ EvalAgentMove
    \/ RunApp

SpecEval == InitEval /\ [][NextEval]_vars

\* ---------------------------------------------------------------------
\* every game the program plays: an episode of playGame or the games of
\* evaluate_agent

InitPlay == InitGame \/ InitEval

NextPlay == NextGame \/ NextEval

SpecPlay == InitPlay /\ [][NextPlay]_vars

\* ---------------------------------------------------------------------
\* games driven by best_move_minimax: each mark is played either by the
\* search or by an arbitrary legal move

\* the marks on board b
NumMarks(b) == 9 - Len(_legal_moves(b))

InitSearch ==
    /\ board = EmptyBoard
    /\ pc = "play"
    /\ turn \in {"X", "O"}
    /\ teacher = None
    /\ prev_state = None
    /\ prev_action = None
    /\ update = None
    /\ updates = 0
    /\ terminal_updates = 0
    /\ attempts = 0
    /\ opponent \in {"minimax", "random"}
    /\ agent \in {"minimax", "random"}
    /\ agent_found = TRUE
    /\ games = 0
    /\ g = 0
    /\ wins = 0
    /\ draws = 0
    /\ losses = 0
    /\ serving = FALSE
    /\ cache = <<>>
    /\ result = None

\* the moves the policy that plays key may make on board b
PolicyMoves(policy, b, key) ==
    IF policy = "minimax" THEN {best_move_minimax(b, key)}
    ELSE MoveSet(_legal_moves(b))

\* one ply: the mover's policy picks a cell, the mark is placed
SearchPly ==
    /\ pc = "play"
    /\ _winner(board) = None
    /\ \E mv \in PolicyMoves(IF turn = "X" THEN opponent ELSE agent, board, turn) :
         board' = SetCell(board, mv[1], mv[2], turn)
    /\ turn' = Other(turn)
    /\ UNCHANGED <<pc, gameVars, evalVars, result>>

NextSearch == SearchPly

SpecSearch == InitSearch /\ [][NextSearch]_vars

\* ---------------------------------------------------------------------
\* the lru_cache followed through the calls of one game: at each ply the
\* mover plays any legal cell or, as the teacher does, the cell
\* best_move_minimax returns

InitCache ==
    /\ board = EmptyBoard
    /\ pc = "play"
    /\ turn \in {"X", "O"}
    /\ teacher = None
    /\ prev_state = None
    /\ prev_action = None
    /\ update = None
    /\ updates = 0
    /\ terminal_updates = 0
    /\ attempts = 0
    /\ opponent = None
    /\ agent = None
    /\ agent_found = TRUE
    /\ games = 0
    /\ g = 0
    /\ wins = 0
    /\ draws = 0
    /\ losses = 0
    /\ serving = FALSE
    /\ cache = <<>>
    /\ result = [key |-> None, hit |-> FALSE, value |-> None]

\* a ply that does not call the search
CacheRandomPly ==
    /\ pc = "play"
    /\ _winner(board) = None
    /\ \E mv \in MoveSet(_legal_moves(board)) :
         board' = SetCell(board, mv[1], mv[2], turn)
    /\ turn' = Other(turn)
    /\ UNCHANGED <<pc, gameVars, evalVars, result>>

\* a ply chosen by best_move_minimax(board, turn): _, mv =
\* _minimax_cached(_flatten(board), key), through the lru_cache
CacheSearchPly ==
    /\ pc = "play"
    /\ _winner(board) = None
    /\ NumEmpty(_flatten(board)) <= MaxSearchEmpty
    /\ LET out == cached_call(cache, _flatten(board), turn)
           mv == IF out.res[2] # None THEN out.res[2] ELSE _legal_moves(board)[1]
       IN  /\ cache' = out.memo
           /\ result' = [key |-> <<_flatten(board), turn>>,
                         hit |-> <<_flatten(board), turn>> \in DOMAIN cache,
                         value |-> out.res]
           /\ board' = SetCell(board, mv[1], mv[2], turn)
    /\ turn' = Other(turn)
    /\ UNCHANGED <<pc, gameVars, opponent, agent, agent_found, games, g, wins,
                   draws, losses, serving>>

NextCache == CacheRandomPly \/ CacheSearchPly

SpecCache == InitCache /\ [][NextCache]_vars

\* the mark that moved first in the game that led to the current board
FirstMover == IF NumMarks(board) % 2 = 0 THEN turn ELSE Other(turn)

\* ---------------------------------------------------------------------
\* the outcome evaluators called on an arbitrary board

InitBoards ==
    /\ board \in AllBoards
    /\ pc = "call"
    /\ turn = None
    /\ teacher = None
    /\ prev_state = None
    /\ prev_action = None
    /\ update = None
    /\ updates = 0
    /\ terminal_updates = 0
    /\ attempts = 0
    /\ opponent = None
    /\ agent = None
    /\ agent_found = TRUE
    /\ games = 0
    /\ g = 0
    /\ wins = 0
    /\ draws = 0
    /\ losses = 0
    /\ serving = FALSE
    /\ cache = <<>>
    /\ result = None

\* result = _winner(board), game.py's or evaluate.py's
CallWinner ==
    /\ pc = "call"
    /\ \E module \in {"game", "evaluate"} :
         result' = IF module = "game" THEN _winner(board) ELSE evaluate_winner(board)
    /\ pc' = "_winner"
    /\ UNCHANGED <<board, turn, gameVars, evalVars>>

\* result = game.checkForWin(key)
CallCheckForWin ==
    /\ pc = "call"
    /\ \E key \in {"X", "O"} :
         /\ turn' = key
         /\ result' = checkForWin(board, key)
    /\ pc' = "checkForWin"
    /\ UNCHANGED <<board, gameVars, evalVars>>

\* result = game.checkForEnd(key)
CallCheckForEnd ==
    /\ pc = "call"
    /\ \E key \in {"X", "O"} :
         /\ turn' = key
         /\ result' = checkForEnd(board, key)
    /\ pc' = "checkForEnd"
    /\ UNCHANGED <<board, gameVars, evalVars>>

\* result = best_move_minimax(board, key), or the exception it raises
CallBestMove ==
    /\ pc = "call"
    /\ \E key \in {"X", "O"} :
         /\ turn' = key
         /\ result' = best_move_minimax(board, key)
    /\ pc' = "best_move_minimax"
    /\ UNCHANGED <<board, gameVars, evalVars>>

NextBoards == CallWinner \/ CallCheckForWin \/ CallCheckForEnd \/ CallBestMove

SpecBoards == InitBoards /\ [][NextBoards]_vars

\* ---------------------------------------------------------------------
\* the statements that write a mark, given an arbitrary board and an
\* arbitrary cell by the move source

\* playerMove with a teacher: self.board[action[0]][action[1]] = 'X'
playerMove(b, action) == SetCell(b, action[1], action[2], "X")

\* evaluate_agent: board[i][j] = 'X' after opp_move, board[i][j] = 'O'
\* after _agent_greedy_move
evaluate_mark(b, i, j, key) == SetCell(b, i, j, key)

\* self.agentMove(action) with the action the agent returned
CallAgentMove ==
    /\ pc = "call"
    /\ \E action \in (0..2) \X (0..2) : board' = agentMove(board, action)
    /\ pc' = "agentMove"
    /\ UNCHANGED <<turn, gameVars, evalVars, result>>

\* self.playerMove() with the action the teacher returned
CallPlayerMove ==
    /\ pc = "call"
    /\ \E action \in (0..2) \X (0..2) : board' = playerMove(board, action)
    /\ pc' = "playerMove"
    /\ UNCHANGED <<turn, gameVars, evalVars, result>>

\* one pass of evaluate_agent's while loop up to the write, with the cell
\* opp_move or _agent_greedy_move returned
CallEvaluateMark ==
    /\ pc = "call"
    /\ \E key \in {"X", "O"} : \E mv \in (0..2) \X (0..2) :
         /\ turn' = key
         /\ board' = evaluate_mark(board, mv[1], mv[2], key)
    /\ pc' = "while"
    /\ UNCHANGED <<gameVars, evalVars, result>>

NextWrites == CallAgentMove \/ CallPlayerMove \/ CallEvaluateMark

SpecWrites == InitBoards /\ [][NextWrites]_vars

\* ---------------------------------------------------------------------
\* properties

\* mark m holds one of the 3 rows, 3 columns or 2 diagonals of b
ThreeInLine(b, m) ==
    \/ \E r \in 0..2 : \A c \in 0..2 : Cell(b, r, c) = m
    \/ \E c \in 0..2 : \A r \in 0..2 : Cell(b, r, c) = m
    \/ \A d \in 0..2 : Cell(b, d, d) = m
    \/ \A d \in 0..2 : Cell(b, d, 2 - d) = m

\* no cell of b is empty
Full(b) == \A r \in 0..2 : \A c \in 0..2 : Cell(b, r, c) # "-"

Max(S) == CHOOSE x \in S : \A y \in S : y <= x

Min(S) == CHOOSE x \in S : \A y \in S : x <= y

\* the empty cells of b
EmptyCells(b) == {m \in (0..2) \X (0..2) : Cell(b, m[1], m[2]) = "-"}

\* the boards one mark of player away from b
Children(b, player) == {SetCell(b, m[1], m[2], player) : m \in EmptyCells(b)}

\* plain minimax on one position: +1 X has won, -1 O has won, 0 draw, else
\* X maximizes and O minimizes over all empty cells; no cache, no early
\* exit. ref[n] holds the values of the positions with n - 1 empty cells.
\* (A board where both marks hold a line is never met by a search that
\* starts from a board of legal play; it is given X's value.)
RefBody(ref, b, player) ==
    IF ThreeInLine(b, "X") THEN 1
    ELSE IF ThreeInLine(b, "O") THEN -1
    ELSE IF Full(b) THEN 0
    ELSE IF player = "X"
         THEN Max({ref[Cardinality(EmptyCells(b))][<<c, "O">>] : c \in Children(b, "X")})
         ELSE Min({ref[Cardinality(EmptyCells(b))][<<c, "X">>] : c \in Children(b, "O")})

RefKeys(n) ==
    {<<b, p>> : b \in {c \in AllBoards : Cardinality(EmptyCells(c)) = n},
                p \in {"X", "O"}}

RECURSIVE RefUpTo(_)
RefExtend(ref, n) ==
    Append(ref, [key \in RefKeys(n) |-> RefBody(ref, key[1], key[2])])

RefUpTo(n) ==
    IF n = 0 THEN RefExtend(<<>>, 0) ELSE RefExtend(RefUpTo(n - 1), n)

RefTable == RefUpTo(9)

\* the minimax value of board b with player to move
RefValue(b, player) == RefTable[Cardinality(EmptyCells(b)) + 1][<<b, player>>]

Corners == {<<0, 0>>, <<0, 2>>, <<2, 0>>, <<2, 2>>}

CenterX == SetCell(EmptyBoard, 1, 1, "X")

\* C1: in evaluate_agent with the minimax opponent (X, moving first), for
\* every sequence of legal O moves no board ever shows three O in a line,
\* wins stays 0 and losses + draws equals the number of games played.
C1_MinimaxOpponentNeverBeaten ==
    opponent = "minimax" =>
        /\ wins = 0
        /\ losses + draws = g
        /\ board # None => ~ThreeInLine(board, "O")

\* two games were played against the minimax opponent, one lost, one drawn
C1_Witness ==
    /\ opponent = "minimax"
    /\ pc = "returned"
    /\ losses >= 1
    /\ draws >= 1

\* C2: from the empty board with X to move, when both marks are played by
\* best_move_minimax at every ply, a finished game is a draw: the board
\* is full and neither mark holds a line.
C2_SelfPlayIsDraw ==
    (opponent = "minimax" /\ agent = "minimax" /\ FirstMover = "X"
        /\ _winner(board) # None)
    => (Full(board) /\ ~ThreeInLine(board, "X") /\ ~ThreeInLine(board, "O"))

\* the self-play game that X opened has ended
C2_Witness ==
    /\ opponent = "minimax" /\ agent = "minimax" /\ FirstMover = "X"
    /\ _winner(board) # None
    /\ NumMarks(board) = 9

\* C3: with X moving first and choosing any legal move, an O that always
\* plays best_move_minimax(board, 'O') never loses: no reachable board has
\* three X in a line.
C3_MinimaxONeverLoses ==
    (agent = "minimax" /\ opponent = "random" /\ FirstMover = "X")
    => ~ThreeInLine(board, "X")

\* a game of arbitrary X against the search has ended, here with a win of O
C3_Witness ==
    /\ agent = "minimax" /\ opponent = "random" /\ FirstMover = "X"
    /\ ThreeInLine(board, "O")

\* C4: on every board reachable by legal play, for both movers, the value
\* of the memoized, early-exiting _minimax_cached equals plain minimax.
C4_CachedEqualsPlain ==
    \A player \in {"X", "O"} :
        _minimax_cached(_flatten(board), player)[1] = RefValue(board, player)

\* a position of an ongoing game that X wins by force, where its loop
\* leaves early
C4_Witness ==
    /\ opponent = "random" /\ agent = "random"
    /\ _winner(board) = None
    /\ NumMarks(board) = 3
    /\ RefValue(board, "X") = 1
    /\ _minimax_cached(_flatten(board), "X")[2] # _legal_moves(board)[Len(_legal_moves(board))]

\* C5: on the board with a lone X at the center, best_move_minimax(board,
\* 'O') is one of the four corners and the value with O to move is 0; the
\* search playing O answers the center opening in a corner.
C5_CornerReplyToCenter ==
    /\ board = CenterX =>
         /\ best_move_minimax(board, "O") \in Corners
         /\ _minimax_cached(_flatten(board), "O")[1] = 0
    /\ (agent = "minimax" /\ FirstMover = "X" /\ NumMarks(board) = 2
          /\ Cell(board, 1, 1) = "X")
         => \E m \in Corners : Cell(board, m[1], m[2]) = "O"

\* the search has answered the center opening
C5_Witness ==
    /\ agent = "minimax"
    /\ FirstMover = "X"
    /\ board = SetCell(CenterX, 0, 0, "O")

\* C6: on every 3x3 board, _winner returns a mark exactly when some line
\* holds three equal non-empty marks, and then a mark that holds a line;
\* None exactly when no line is complete and a cell is empty; 'D' exactly
\* when no line is complete and no cell is empty. A full board with a
\* complete line is a win, not a draw.
C6_WinnerOutcome ==
    pc = "_winner" =>
        LET line == ThreeInLine(board, "X") \/ ThreeInLine(board, "O")
        IN  /\ (result \in {"X", "O"}) <=> line
            /\ result \in {"X", "O"} => ThreeInLine(board, result)
            /\ (result = None) <=> (~line /\ ~Full(board))
            /\ (result = "D") <=> (~line /\ Full(board))

\* _winner was called on a full board with a line of X
C6_Witness ==
    /\ pc = "_winner"
    /\ Full(board)
    /\ ThreeInLine(board, "X")
    /\ result = "X"

\* X and O exchanged
SwapMark(m) == IF m = "X" THEN "O" ELSE IF m = "O" THEN "X" ELSE m

Swap(b) == [r \in 1..3 |-> [c \in 1..3 |-> SwapMark(b[r][c])]]

\* C7: outcome evaluation is symmetric under exchanging X and O:
\* _winner(swap(b)) = swap(_winner(b)) with None and 'D' unchanged, and
\* checkForWin(key) on b equals checkForWin(swap(key)) on swap(b).
C7_SwapSymmetry ==
    /\ pc = "_winner" => _winner(Swap(board)) = SwapMark(result)
    /\ pc = "checkForWin" => checkForWin(Swap(board), SwapMark(turn)) = result

\* checkForWin('O') found a line on a board where X holds none
C7_Witness ==
    /\ pc = "checkForWin"
    /\ turn = "O"
    /\ result = TRUE
    /\ ~ThreeInLine(board, "X")

\* what the episode's outcome pays the agent
OutcomeReward(b) ==
    IF ThreeInLine(b, "O") THEN 1 ELSE IF ThreeInLine(b, "X") THEN -1 ELSE 0

\* the episode is over: exactly one update call had nextState = None, it
\* is the latest one and carries the outcome's reward; before that no
\* update call had nextState = None and the latest carries reward 0 and a
\* next state and action
C8_State ==
    IF pc = "done"
    THEN /\ terminal_updates = 1
         /\ update.nextState = None /\ update.nextAction = None
         /\ ThreeInLine(board, "O") \/ ThreeInLine(board, "X") \/ Full(board)
         /\ update.reward = OutcomeReward(board)
    ELSE /\ terminal_updates = 0
         /\ updates > 0 =>
              /\ update.reward = 0
              /\ update.nextState # None /\ update.nextAction # None

\* an update call is the last one exactly when it passes None, None
C8_Step ==
    /\ updates' # updates =>
         /\ updates' = updates + 1
         /\ pc # "done"
         /\ (update'.nextState = None) <=> (pc' = "done")
         /\ (update'.nextAction = None) <=> (pc' = "done")
    /\ pc' = "done" /\ pc # "done" => updates' = updates + 1

\* C8: in every episode of playGame exactly one update call passes
\* nextState = None and nextAction = None; it is the last update call and
\* its reward is +1 if O completed a line, -1 if X completed a line, 0 if
\* the board filled with no line; every other update call carries reward
\* 0 and a non-None nextState and nextAction.
C8_TerminalUpdate == []C8_State /\ [][C8_Step]_vars

\* an episode with earlier update calls has ended in a loss of the agent
C8_Witness ==
    /\ pc = "done"
    /\ updates >= 2
    /\ update.reward = -1

\* the line names a cell the way playerMove reads it: a digit 0..2 first,
\* a digit 0..2 third
NamesCell(move) ==
    /\ Len(move) >= 3
    /\ move[1] \in {"0", "1", "2"}
    /\ move[3] \in {"0", "1", "2"}

\* C9: in playerMove with a human player, for every input line, an X is
\* placed only when the line names an in-range cell that is empty, and
\* then exactly that cell changes; for every other line (wrong format, too
\* short, out of range, occupied) the board is unchanged and the player is
\* prompted again, the loop not aborting.
C9_InputHandling ==
    [][\A move \in Inputs :
         HumanInput(move) =>
            IF NamesCell(move)
               /\ Cell(board, DigitValue[move[1]], DigitValue[move[3]]) = "-"
            THEN board' = SetCell(board, DigitValue[move[1]], DigitValue[move[3]], "X")
            ELSE board' = board /\ pc' = pc]_vars

\* C10 as claimed: without a persisted agent both evaluate_agent and
\* run_app fail fast: no board is created, no game is played and the
\* server is not started.
C10_FailFast ==
    ~agent_found =>
        /\ board = None
        /\ g = 0
        /\ ~serving
        /\ pc \in {"evaluate_agent", "run_app", "FileNotFoundError"}

\* C10 amended: without a persisted agent evaluate_agent fails with
\* FileNotFoundError before any game (no board, no move, no count), while
\* run_app starts the server whether or not the agent exists.
C10_EvaluateFailsFast ==
    /\ [](~agent_found =>
            /\ board = None
            /\ g = 0 /\ wins = 0 /\ draws = 0 /\ losses = 0
            /\ pc \in {"evaluate_agent", "FileNotFoundError", "run_app", "serving"})
    /\ [][pc = "evaluate_agent" /\ ~agent_found => pc' = "FileNotFoundError"]_vars
    /\ [][pc = "run_app" => serving' /\ pc' = "serving"]_vars

\* evaluate_agent has raised FileNotFoundError
C10_Witness ==
    /\ ~agent_found
    /\ pc = "FileNotFoundError"

\* the number of cells of b that hold mark m
Count(b, m) == Cardinality({c \in (0..2) \X (0..2) : Cell(b, c[1], c[2]) = m})

\* while a game of evaluate_agent runs X is to move exactly when both
\* marks have the same number of cells and O exactly when X has one more;
\* the counters add up to the games finished; the returned triple adds up
\* to games
C11_State ==
    /\ wins + draws + losses = g
    /\ g <= games
    /\ pc = "while" =>
         /\ turn = "X" <=> Count(board, "X") = Count(board, "O")
         /\ turn = "O" <=> Count(board, "X") = Count(board, "O") + 1
    /\ pc = "returned" =>
         /\ g = games
         /\ result = <<wins, draws, losses>>
         /\ result[1] + result[2] + result[3] = games

\* the first mark of a game is an X; a game that ends adds one to exactly
\* one counter: wins on a line of O, losses on a line of X, draws on a full
\* board with no line
C11_Step ==
    /\ (pc = "while" /\ board = EmptyBoard /\ board' # board)
         => Count(board', "X") = 1 /\ Count(board', "O") = 0
    /\ g' # g =>
         /\ g' = g + 1
         /\ pc = "while"
         /\ wins' = wins + (IF ThreeInLine(board', "O") THEN 1 ELSE 0)
         /\ losses' = losses + (IF ThreeInLine(board', "X") THEN 1 ELSE 0)
         /\ draws' = draws + (IF Full(board') /\ ~ThreeInLine(board', "O")
                                 /\ ~ThreeInLine(board', "X") THEN 1 ELSE 0)
         /\ (wins' + draws' + losses') = (wins + draws + losses) + 1
    /\ g' = g => (wins' = wins /\ draws' = draws /\ losses' = losses)

\* C11: in evaluate_agent the opponent X makes the first move of every
\* game and the agent O moves second; each finished game adds one to
\* exactly one of wins, draws, losses, by the outcome seen from O (line of
\* O a win, line of X a loss, full board with no line a draw); the counts
\* returned add up to the number of games.
C11_Counts == []C11_State /\ [][C11_Step]_vars

\* two games were played, one won and one drawn by the agent
C11_Witness ==
    /\ pc = "returned"
    /\ games = 2
    /\ wins = 1
    /\ draws = 1

\* where the episode stands: every action applied so far has had its
\* update, except the one applied last while the opponent's reply is
\* awaited; the action chosen last is the nextAction of the latest update
C12_State ==
    /\ pc \in {"start", "playerFirst"} => (updates = 0 /\ Count(board, "O") = 0)
    /\ pc = "agentMove" =>
         /\ updates = Count(board, "O")
         /\ Cell(board, prev_action[1], prev_action[2]) = "-"
         /\ prev_state = getStateKey(board)
    /\ pc = "playerMove" =>
         /\ updates = Count(board, "O") - 1
         /\ Cell(board, prev_action[1], prev_action[2]) = "O"
    /\ pc = "done" =>
         /\ updates = Count(board, "O")
         /\ update.prevAction = prev_action
         /\ Cell(board, prev_action[1], prev_action[2]) = "O"
    /\ (updates > 0 /\ pc \in {"agentMove", "playerMove"}) =>
         /\ update.nextAction = prev_action
         /\ update.nextState = prev_state

\* an O is placed only by applying the pending action, on a cell not yet
\* played; an update call passes the pending state and action, already
\* applied, which are the nextState and nextAction of the call before; a
\* call with a next state is made on the opponent's reply, with the key of
\* the board after the reply and the action chosen then
C12_Step ==
    /\ Count(board', "O") # Count(board, "O") =>
         /\ pc = "agentMove"
         /\ Cell(board, prev_action[1], prev_action[2]) = "-"
         /\ board' = SetCell(board, prev_action[1], prev_action[2], "O")
    /\ updates' # updates =>
         /\ updates' = updates + 1
         /\ update'.prevState = prev_state
         /\ update'.prevAction = prev_action
         /\ Cell(board', prev_action[1], prev_action[2]) = "O"
         /\ updates > 0 =>
              /\ update'.prevState = update.nextState
              /\ update'.prevAction = update.nextAction
         /\ update'.nextState # None =>
              /\ pc = "playerMove"
              /\ Count(board', "X") = Count(board, "X") + 1
              /\ update'.nextState = getStateKey(board')
              /\ update'.nextAction = prev_action'
              /\ Cell(board', prev_action'[1], prev_action'[2]) = "-"
              /\ pc' = "agentMove"
    /\ prev_action' # prev_action => pc' = "agentMove"

\* C12: in playGame every action obtained from get_action is applied to
\* the board exactly once and is the prevAction of exactly one update call,
\* in the order chosen; an update with a next state is issued only after
\* the opponent's reply, with the board key after the reply and the
\* agent's next action; each update's (prevState, prevAction) is the
\* (nextState, nextAction) of the update before it; when the episode has
\* ended there are as many update calls as agent moves applied.
C12_UpdateChain == []C12_State /\ [][C12_Step]_vars

\* an episode of four agent moves has ended
C12_Witness ==
    /\ pc = "done"
    /\ Count(board, "O") = 4
    /\ updates = 4

\* the mark the running game places next, None when no game is running
NextMover ==
    IF pc \in {"playerFirst", "playerMove"} THEN "X"
    ELSE IF pc = "agentMove" THEN "O"
    ELSE IF pc = "while" THEN turn
    ELSE None

\* the two counts differ by at most one and the mark that is ahead is
\* not the one to move; in evaluate_agent, where X opens, O is never ahead
C13_State ==
    board # None =>
        /\ Count(board, "X") - Count(board, "O") \in {-1, 0, 1}
        /\ Count(board, "X") = Count(board, "O") + 1 => NextMover # "X"
        /\ Count(board, "O") = Count(board, "X") + 1 => NextMover # "O"
        /\ pc \in {"while", "for", "returned"} => Count(board, "X") >= Count(board, "O")

\* a ply puts the mark of the player to move on one empty cell and hands
\* the move to the other player or ends the game; the mark that is ahead
\* never falls behind
C13_Step ==
    (board # None /\ board' # board /\ board' # EmptyBoard) =>
        /\ NextMover \in {"X", "O"}
        /\ \E c \in EmptyCells(board) : board' = SetCell(board, c[1], c[2], NextMover)
        /\ NextMover' \in {Other(NextMover), None}
        /\ Count(board, "X") > Count(board, "O") => Count(board', "X") >= Count(board', "O")
        /\ Count(board, "O") > Count(board, "X") => Count(board', "O") >= Count(board', "X")

\* C13: in every state of a playGame episode (either first mover) and of
\* an evaluate_agent game, with move sources that return empty cells, the
\* counts of X and O differ by at most one, the first mover's count being
\* equal to or one greater than the other's; no player places two marks
\* in a row.
C13_Alternation == []C13_State /\ [][C13_Step]_vars

\* playGame with the agent moving first, after its third move
C13_Witness ==
    /\ pc = "playerMove"
    /\ Count(board, "O") = 3
    /\ Count(board, "X") = 2

\* C14: for any board on which X or O holds a complete line, checkForEnd
\* reports the game as over (a value other than -1) whichever key it is
\* called with.
C14_BothMarksChecked ==
    (pc = "checkForEnd" /\ (ThreeInLine(board, "X") \/ ThreeInLine(board, "O")))
        => result # -1

\* C15: a mark is written only to a cell that is empty at that moment:
\* given an occupied cell by the move source, agentMove, playerMove and
\* the evaluation loop leave the existing mark as it is.
C15_NoOverwrite ==
    [][\A c \in (0..2) \X (0..2) :
         Cell(board', c[1], c[2]) # Cell(board, c[1], c[2])
            => Cell(board, c[1], c[2]) = "-"]_vars

\* the first cell of S in row-major order
FirstOf(S) == CHOOSE c \in S : \A d \in S : 3 * c[1] + c[2] <= 3 * d[1] + d[2]

\* C16 as claimed: best_move_minimax never fails: on every board and for
\* both movers it returns an empty cell of the board, the first one in
\* row-major order when the search yields no move.
C16_NeverFails ==
    pc = "best_move_minimax" =>
        /\ result # "IndexError"
        /\ result \in EmptyCells(board)
        /\ _minimax_cached(_flatten(board), turn)[2] = None
             => result = FirstOf(EmptyCells(board))

\* C16 amended: on every board with an empty cell, for both movers,
\* best_move_minimax returns an empty cell of the board: the move of the
\* search, or the first empty cell in row-major order when the search
\* yields no move (the board is won); on a full board it raises IndexError.
C16_FallbackWhenCellEmpty ==
    pc = "best_move_minimax" =>
        IF Full(board)
        THEN result = "IndexError"
        ELSE /\ result \in EmptyCells(board)
             /\ _minimax_cached(_flatten(board), turn)[2] # None
                  => result = _minimax_cached(_flatten(board), turn)[2]
             /\ _minimax_cached(_flatten(board), turn)[2] = None
                  => /\ result = FirstOf(EmptyCells(board))
                     /\ ThreeInLine(board, "X") \/ ThreeInLine(board, "O")

\* the fallback was taken on a won board whose top-left cell is occupied
C16_Witness ==
    /\ pc = "best_move_minimax"
    /\ ThreeInLine(board, "O")
    /\ Cell(board, 0, 0) # "-"
    /\ result = FirstOf(EmptyCells(board))

\* the empty cells of b whose resulting position has the value of b, by
\* the search's own values and by plain minimax
BestCells(b, key) ==
    {c \in EmptyCells(b) :
        _minimax_cached(_flatten(SetCell(b, c[1], c[2], key)), Other(key))[1]
            = _minimax_cached(_flatten(b), key)[1]}

PlainBestCells(b, key) ==
    {c \in EmptyCells(b) :
        RefValue(SetCell(b, c[1], c[2], key), Other(key)) = RefValue(b, key)}

\* C17: for every non-terminal board and mover the move returned by the
\* search is the first empty cell in row-major order whose resulting
\* position has the value of the searched position; it is the move a
\* search without the early exit at +1 / -1 returns.
C17_FirstBestMove ==
    (pc = "best_move_minimax" /\ _winner(board) = None) =>
        /\ result = FirstOf(BestCells(board, turn))
        /\ result = FirstOf(PlainBestCells(board, turn))

\* X wins by force in more than one way, the first empty cell is not one
\* of them, and the loop left early
C17_Witness ==
    /\ pc = "best_move_minimax"
    /\ turn = "X"
    /\ _winner(board) = None
    /\ _minimax_cached(_flatten(board), "X")[1] = 1
    /\ Cardinality(BestCells(board, "X")) >= 2
    /\ result # FirstOf(EmptyCells(board))
    /\ result # _legal_moves(board)[Len(_legal_moves(board))]

\* the result of _minimax_cached for a key when the cache is empty
FreshSearch(key) == cached_call(<<>>, key[1], key[2]).res

\* every entry held is the result a search from an empty cache gives
C18_State == \A k \in DOMAIN cache : cache[k] = FreshSearch(k)

\* no entry changes or goes; the result of a call is that of a search
\* from an empty cache and that of the table of all keys; a hit leaves
\* the cache as it is and a miss stores the result under the key
C18_Step ==
    /\ \A k \in DOMAIN cache : k \in DOMAIN cache' /\ cache'[k] = cache[k]
    /\ result' # result =>
         /\ result'.key = <<_flatten(board), turn>>
         /\ result'.value = FreshSearch(result'.key)
         /\ result'.value = _minimax_cached(_flatten(board), turn)
         /\ result'.hit => (cache' = cache /\ result'.value = cache[result'.key])
         /\ result'.key \in DOMAIN cache' /\ cache'[result'.key] = result'.value

Over(b) == ThreeInLine(b, "X") \/ ThreeInLine(b, "O") \/ Full(b)

\* the episode goes on exactly while the board is not over; once it has
\* ended the final update has been made
C19_State ==
    /\ NumMarks(board) <= 9
    /\ pc \in {"start", "playerFirst", "agentMove", "playerMove"} => ~Over(board)
    /\ pc = "done" =>
         /\ Over(board)
         /\ terminal_updates = 1
         /\ update.nextState = None

\* a ply adds one mark and ends the episode exactly when the board is
\* over after it, the final update being made then; nothing happens after
\* the end
C19_Step ==
    /\ pc # "done"
    /\ board' # board =>
         /\ NumMarks(board') = NumMarks(board) + 1
         /\ pc' = "done" <=> Over(board')
    /\ pc' = "done" =>
         /\ board' # board
         /\ updates' = updates + 1
         /\ update'.nextState = None /\ update'.nextAction = None

\* C19: every episode of playGame with move sources that return empty
\* cells ends after at most 9 plies, at the first ply that leaves a line
\* or a full board; the final update is made then, and afterwards no mark
\* is placed and nothing else happens. With a teacher the episode always
\* reaches its end.
C19_Terminates ==
    /\ []C19_State
    /\ [][C19_Step]_vars
    /\ (teacher # None) ~> (pc = "done")

\* an episode ended on the ninth ply
C19_Witness ==
    /\ pc = "done"
    /\ NumMarks(board) = 9

\* C20: on every board reached in playGame by legal play, with key the
\* mark just placed, checkForEnd(key) agrees with _winner: 1 exactly when
\* _winner returns key, 0 exactly when it returns 'D', -1 exactly when it
\* returns None; the other mark holds no line; and the loop ends exactly
\* when _winner reports an outcome.
C20_EndAgreesWithWinner ==
    [][board' # board =>
         LET key == NextMover
             end == checkForEnd(board', key)
             won == _winner(board')
         IN  /\ key \in {"X", "O"}
             /\ Count(board', key) = Count(board, key) + 1
             /\ end = 1 <=> won = key
             /\ end = 0 <=> won = "D"
             /\ end = -1 <=> won = None
             /\ ~ThreeInLine(board', Other(key))
             /\ pc' = "done" <=> won # None]_vars

\* the agent completed a line with the mark that filled the board
C20_Witness ==
    /\ pc = "done"
    /\ Full(board)
    /\ ThreeInLine(board, "O")
    /\ update.reward = 1

====
